---------------------------- MODULE Spec2Model ----------------------------
(***************************************************************************)
(* Model of the prevalence control loop of covasim_controller:             *)
(* controller_intervention (__init__, initialize, apply) driven by the     *)
(* host simulator's day loop.  Rates are exact rationals <<num, den>>;     *)
(* counts, estimates and the control signal are integers.                  *)
(***************************************************************************)
EXTENDS Integers, Sequences, FiniteSets, TLC

(* ------------------------------ bounds -------------------------------- *)
NDays == 2          \* sim.pars['n_days']: apply runs on days 0..NDays
MaxStart == 1       \* start_day is drawn from 0..MaxStart
PopSize == 2        \* sim.scaled_pop_size
Ipow == 2           \* self.SEIR.Ipow, the configured exponent
Target == 1         \* targets['infected']
Beta == 2           \* sim.pars['beta'] (positive)
nE == 1             \* exposed sub-stages of the model
nI == 4             \* infectious sub-stages of the model
MaxFlat == 6        \* TransitionMatrix.full takes 1..MaxFlat values
MaxStages == 2      \* EI and IR have 1..MaxStages sub-stages each
Denom == 2          \* entries of EI and IR are k/Denom, k in 0..Denom
MaxSteps == 2       \* model steps x' = A x + B u taken from an assembled model
RepDays == 0        \* each of the two replicates runs days 0..RepDays

(* -------------------------- program constants -------------------------- *)
LayerDivisor == 18  \* new_beta /= 18

nEIR == nE + nI

ControlledLayers == <<"h", "s", "w", "c", "l">>

(* Layer-key sets a host can have: hybrid, synthpops, synthpops + school.  *)
HostLayerSets ==
    { {"h", "s", "w", "c"},
      {"h", "s", "w", "c", "l"},
      {"h", "s", "w", "c", "l", "sc1"} }

HostLayerRate(k) ==
    CASE k = "h" -> 10
      [] k = "s" -> 2
      [] k = "w" -> 2
      [] k = "c" -> 1
      [] k = "l" -> 5
      [] OTHER   -> 3

(* ------------------------- rational arithmetic ------------------------- *)
Abs(x) == IF x < 0 THEN -x ELSE x

RECURSIVE GCD(_, _)
GCD(a, b) == IF b = 0 THEN a ELSE GCD(b, a % b)

\* the rational n/d (d # 0) in lowest terms with a positive denominator
Rat(n, d) ==
    LET g == GCD(Abs(n), Abs(d))
        s == IF d < 0 THEN -1 ELSE 1
    IN  <<(s * n) \div g, (s * d) \div g>>

RatMul(p, q) == Rat(p[1] * q[1], p[2] * q[2])
RatDiv(p, q) == Rat(p[1] * q[2], p[2] * q[1])
RatMax0(p) == IF p[1] < 0 THEN <<0, 1>> ELSE p
RatEq(p, q) == p[1] * q[2] = q[1] * p[2]
\* the products a * b and c * d of rationals are equal
ProdEq(a, b, c, d) == a[1] * b[1] * c[2] * d[2] = c[1] * d[1] * a[2] * b[2]

RECURSIVE Pow(_, _)
Pow(x, k) == IF k = 0 THEN 1 ELSE x * Pow(x, k - 1)

RECURSIVE SumTo(_, _)
SumTo(v, k) == IF k = 0 THEN 0 ELSE v[k] + SumTo(v, k - 1)

Min(a, b) == IF a < b THEN a ELSE b


(* ------------------------------- state -------------------------------- *)
VARIABLES
    \* host simulator (sim)
    t,               \* sim.t
    beta,            \* sim.pars['beta']
    beta_layer,      \* sim.pars['beta_layer']: layer key -> rate
    people,          \* sim.people: counts of ever exposed / exposed / infectious
    n_exposed,       \* sim.results['n_exposed'], slots 0..NDays
    new_infections,  \* sim.results['new_infections'], slots 0..NDays
    \* controller_intervention (self)
    start_day,       \* self.start_day
    beta0,           \* self.beta0
    beta_layer0,     \* self.beta_layer0
    u_k,             \* self.u_k
    integrated_err,  \* self.integrated_err
    EIhat,           \* self.Kalman.EIhat
    pc,              \* position of the host's day loop
    \* observation of the calls made
    apply_calls,     \* number of apply calls started
    kalman_updates,  \* number of Kalman.update calls
    control_calls,   \* number of Controller.get_control calls
    last,            \* what the latest apply did
    \* the model classes of SEIR.py, built before the day loop
    seir,            \* the SEIR object under construction
    tm,              \* a TransitionMatrix.full call: argument and result
    \* two replicates run side by side, as objects and references
    reps             \* models, dicts, estimators, sims and orchestrators

host_vars == <<t, beta, beta_layer, people, n_exposed, new_infections>>
self_vars == <<start_day, beta0, beta_layer0, u_k, integrated_err, EIhat>>
call_vars == <<apply_calls, kalman_updates, control_calls, last>>
aux_vars == <<seir, tm, reps>>
vars == <<host_vars, self_vars, call_vars, pc, aux_vars>>

\* the SEIR.py objects while the day loop runs: not under construction
SeirIdle == [pc |-> "idle"]
TmIdle == [pc |-> "idle"]
RepsIdle == [pc |-> "idle"]

Slots == 0 .. NDays

NoCall ==
    [regime |-> "none", u_raw |-> 0, u |-> 0, xi |-> 0, new_beta |-> <<0, 1>>,
     written |-> {}, raised |-> FALSE]

(* ------------------ estimator and controller (Kalman, Controller) ------ *)
\* estimates the predict/correct recursion can leave behind under noise:
\* all zero, or one sub-stage (the first E, the first I or the last I stage)
\* off zero, above or below
EstimateValues == {0 - 1, 1}

EstimateSpace ==
    {[i \in 1 .. nEIR |-> 0]} \cup
    {[i \in 1 .. nEIR |-> IF i = j THEN a ELSE 0] :
        j \in {1, nE + 1, nEIR}, a \in EstimateValues}

\* Kalman(initial_exposed_pop, SEIR): the count seeds the first E sub-stage
KalmanInit(initial_exposed_pop) ==
    [i \in 1 .. nEIR |-> IF i = 1 THEN initial_exposed_pop ELSE 0]

\* Kalman.update(E, I, u): the set of estimates the update can produce
KalmanUpdate(xhat, E, I, u) == EstimateSpace

\* Kalman.Ihat(): the infectious sub-stage estimates, in stage order
Ihat(xhat) == [i \in 1 .. nI |-> xhat[nE + i]]

\* Controller(SEIR, pole_loc): the gain on [EIhat; integrated_err]
K == [i \in 1 .. nEIR + 1 |-> 1]

\* daily counts the host can report
InfectiousCounts == {0, 1}
NewInfectionCounts == {0, 1}
SeedCounts == {0, 1}

\* Controller.get_control(Xu): u = -K . Xu, not clamped
GetControl(Xu) == 0 - SumTo([i \in 1 .. Len(Xu) |-> K[i] * Xu[i]], Len(Xu))


(* --------------------------- what apply reads -------------------------- *)
\* sim.results[...][sim.t-1]: a negative index counts from the end
PrevSlot == (t - 1) % (NDays + 1)

Observed_y == n_exposed[PrevSlot]
Observed_N == PopSize
\* variant: the difference is taken the other way round
Observed_S_Reversed == people.ever_exposed - Observed_N

Observed_S == Observed_N - people.ever_exposed
Observed_I == people.infectious
Observed_E == Observed_y - Observed_I
Observed_new_infections == new_infections[PrevSlot]

(* ----------------------------- apply: steps ---------------------------- *)
\* variant: the degenerate-input test is dropped
OpenLoop_WarmupOnly == t < start_day

\* variant: 'and' in place of 'or'
OpenLoop_And == t < start_day /\ Observed_S * Observed_I = 0

OpenLoop == t < start_day \/ Observed_S * Observed_I = 0

\* variant: the controller output is used as it comes
ClampControl_Identity(u) == u

ClampControl(u) == IF u > 0 THEN u ELSE 0

\* variant: the first three sub-stages are not counted a second time
EffectiveInfectious_NoDouble(Ih) == SumTo(Ih, Len(Ih))

EffectiveInfectious(Ih) == SumTo(Ih, Len(Ih)) + SumTo(Ih, Min(3, Len(Ih)))

\* the rate of the day: needs S # 0 when xi > 0
NewBeta(u, S, xi) ==
    IF xi > 0
    THEN RatDiv(RatMax0(RatDiv(<<u, 1>>, Rat(S * Pow(xi, Ipow), Observed_N))),
                <<LayerDivisor, 1>>)
    ELSE beta0

\* variant: the diagnostic entry of the day takes the clamped control
RecordControl_ClampedU(uk, day, u, new_beta) == [uk EXCEPT ![day] = <<u, 1>>]

\* line 121: the diagnostic entry of the day
RecordControl(uk, day, u, new_beta) == [uk EXCEPT ![day] = new_beta]

\* variant: the division by the baseline rate is left out
ScaledRate_NoNormalise(lkey, new_beta) == RatMul(beta_layer0[lkey], new_beta)

ScaledRate(lkey, new_beta) == RatDiv(RatMul(beta_layer0[lkey], new_beta), beta0)

\* number of leading keys of ControlledLayers that beta_layer0 has
RECURSIVE KnownPrefix(_)
KnownPrefix(i) ==
    IF i > Len(ControlledLayers) THEN i - 1
    ELSE IF ControlledLayers[i] \in DOMAIN beta_layer0 THEN KnownPrefix(i + 1)
    ELSE i - 1

\* the keys the for loop assigns: those before the first missing key
WrittenLayers == {ControlledLayers[i] : i \in 1 .. KnownPrefix(1)}

\* variant: every controlled layer is set to the new rate itself
WriteLayers_Direct(bl, new_beta) ==
    [k \in DOMAIN bl \cup WrittenLayers |->
        IF k \in WrittenLayers THEN new_beta ELSE bl[k]]

\* variant: the day's multiplier is applied to the layer's present rate
WriteLayers_Compound(bl, new_beta) ==
    [k \in DOMAIN bl \cup WrittenLayers |->
        IF k \in WrittenLayers THEN RatDiv(RatMul(bl[k], new_beta), beta0)
        ELSE bl[k]]

\* the for loop over the controlled layers
WriteLayers(bl, new_beta) ==
    [k \in DOMAIN bl \cup WrittenLayers |->
        IF k \in WrittenLayers THEN ScaledRate(k, new_beta) ELSE bl[k]]

LoopRaises == KnownPrefix(1) < Len(ControlledLayers)

NextIntegratedErr(err, y) == err + y - Target

(* -------------------------------- Init --------------------------------- *)
\* after controller_intervention.__init__, with a host sim built and seeded
Init ==
    /\ t = 0
    /\ beta = <<Beta, 1>>
    /\ \E ks \in HostLayerSets : beta_layer = [k \in ks |-> <<HostLayerRate(k), 1>>]
    /\ \E ee \in SeedCounts, inf \in InfectiousCounts :
          /\ inf <= ee
          /\ people = [ever_exposed |-> ee, exposed |-> ee, infectious |-> inf]
    /\ n_exposed = [d \in Slots |-> 0]
    /\ new_infections = [d \in Slots |-> 0]
    /\ start_day \in 0 .. MaxStart
    /\ beta0 = <<0, 1>>
    /\ beta_layer0 = [k \in {} |-> <<0, 1>>]
    /\ u_k = [d \in {} |-> <<0, 1>>]
    /\ integrated_err = 0
    /\ EIhat = [i \in {} |-> 0]
    /\ pc = "constructed"
    /\ apply_calls = 0
    /\ kalman_updates = 0
    /\ control_calls = 0
    /\ last = NoCall
    /\ seir = SeirIdle
    /\ tm = TmIdle
    /\ reps = RepsIdle

(* ------------------------------ initialize ----------------------------- *)
Initialize ==
    /\ pc = "constructed"
    /\ beta0' = beta
    /\ beta_layer0' = beta_layer
    /\ u_k' = [d \in Slots |-> beta]
    /\ EIhat' = KalmanInit(people.exposed)
    /\ pc' = "apply"
    /\ UNCHANGED <<host_vars, start_day, integrated_err, call_vars, aux_vars>>

(* -------------------------------- apply -------------------------------- *)
\* variant: the open-loop branch returns without updating the estimator
ApplyOpen_NoUpdate ==
    /\ pc = "apply"
    /\ OpenLoop
    /\ last' = [NoCall EXCEPT !.regime = "open", !.u = Observed_new_infections]
    /\ apply_calls' = apply_calls + 1
    /\ pc' = "step"
    /\ UNCHANGED <<host_vars, self_vars, kalman_updates, control_calls, aux_vars>>

\* variant: the integral error is accumulated outside the else branch
ApplyOpen_Accumulates ==
    /\ pc = "apply"
    /\ OpenLoop
    /\ LET u == Observed_new_infections
       IN  /\ EIhat' \in KalmanUpdate(EIhat, Observed_E, Observed_I, u)
           /\ kalman_updates' = kalman_updates + 1
           /\ last' = [NoCall EXCEPT !.regime = "open", !.u = u]
    /\ integrated_err' = NextIntegratedErr(integrated_err, Observed_y)
    /\ apply_calls' = apply_calls + 1
    /\ pc' = "step"
    /\ UNCHANGED <<host_vars, start_day, beta0, beta_layer0, u_k, control_calls,
                   aux_vars>>

\* the branch of apply taken when sim.t < start_day or S*I == 0
ApplyOpen ==
    /\ pc = "apply"
    /\ OpenLoop
    /\ LET u == Observed_new_infections
       IN  /\ EIhat' \in KalmanUpdate(EIhat, Observed_E, Observed_I, u)
           /\ kalman_updates' = kalman_updates + 1
           /\ last' = [NoCall EXCEPT !.regime = "open", !.u = u]
    /\ apply_calls' = apply_calls + 1
    /\ pc' = "step"
    /\ UNCHANGED <<host_vars, start_day, beta0, beta_layer0, u_k,
                   integrated_err, control_calls, aux_vars>>

\* variant: the estimator is updated first and the control is computed from
\* the updated estimate
ApplyClosed_ControlAfterUpdate ==
    /\ pc = "apply"
    /\ ~OpenLoop
    /\ \E xhat \in KalmanUpdate(EIhat, Observed_E, Observed_I, 0) :
             LET Xu == Append(xhat, integrated_err)
                 u_raw == GetControl(Xu)
                 u == ClampControl(u_raw)
                 xi == EffectiveInfectious(Ihat(xhat))
                 new_beta == NewBeta(u, Observed_S, xi)
             IN  /\ EIhat' = xhat
                 /\ control_calls' = control_calls + 1
                 /\ kalman_updates' = kalman_updates + 1
                 /\ beta_layer' = WriteLayers(beta_layer, new_beta)
                 /\ last' = [regime |-> "closed", u_raw |-> u_raw, u |-> u,
                             xi |-> xi, new_beta |-> new_beta,
                             written |-> WrittenLayers, raised |-> LoopRaises]
                 /\ IF LoopRaises
                    THEN /\ pc' = "raised"    \* KeyError leaves apply
                         /\ UNCHANGED <<u_k, integrated_err>>
                    ELSE /\ pc' = "step"
                         /\ u_k' = RecordControl(u_k, t, u, new_beta)
                         /\ integrated_err' = NextIntegratedErr(integrated_err, Observed_y)
    /\ apply_calls' = apply_calls + 1
    /\ UNCHANGED <<t, beta, people, n_exposed, new_infections,
                   start_day, beta0, beta_layer0, aux_vars>>

\* the else branch of apply
ApplyClosed ==
    /\ pc = "apply"
    /\ ~OpenLoop
    /\ LET Xu == Append(EIhat, integrated_err)
           u_raw == GetControl(Xu)
           u == ClampControl(u_raw)
       IN  \E xhat \in KalmanUpdate(EIhat, Observed_E, Observed_I, u) :
             LET xi == EffectiveInfectious(Ihat(xhat))
                 new_beta == NewBeta(u, Observed_S, xi)
             IN  /\ EIhat' = xhat
                 /\ control_calls' = control_calls + 1
                 /\ kalman_updates' = kalman_updates + 1
                 /\ beta_layer' = WriteLayers(beta_layer, new_beta)
                 /\ last' = [regime |-> "closed", u_raw |-> u_raw, u |-> u,
                             xi |-> xi, new_beta |-> new_beta,
                             written |-> WrittenLayers, raised |-> LoopRaises]
                 /\ IF LoopRaises
                    THEN /\ pc' = "raised"    \* KeyError leaves apply
                         /\ UNCHANGED <<u_k, integrated_err>>
                    ELSE /\ pc' = "step"
                         /\ u_k' = RecordControl(u_k, t, u, new_beta)
                         /\ integrated_err' = NextIntegratedErr(integrated_err, Observed_y)
    /\ apply_calls' = apply_calls + 1
    /\ UNCHANGED <<t, beta, people, n_exposed, new_infections,
                   start_day, beta0, beta_layer0, aux_vars>>

(* ------------------------------ host step ------------------------------ *)
\* the rest of sim.step for day t: people change, results[t] are stored
HostStep ==
    /\ pc = "step"
    /\ \E ni \in NewInfectionCounts, ex \in 0 .. PopSize, inf \in InfectiousCounts :
          /\ people.ever_exposed + ni <= PopSize
          /\ inf <= ex
          /\ ex <= people.ever_exposed + ni
          /\ people' = [ever_exposed |-> people.ever_exposed + ni,
                        exposed |-> ex, infectious |-> inf]
          /\ n_exposed' = [n_exposed EXCEPT ![t] = ex]
          /\ new_infections' = [new_infections EXCEPT ![t] = ni]
    /\ t' = t + 1
    /\ pc' = IF t < NDays THEN "apply" ELSE "done"
    /\ UNCHANGED <<beta, beta_layer, self_vars, call_vars, aux_vars>>

Next == Initialize \/ ApplyOpen \/ ApplyClosed \/ HostStep

Spec == Init /\ [][Next]_vars


(* ------------------------- TransitionMatrix.full ----------------------- *)
\* the day-loop variables while only SEIR.py code runs
LoopIdle ==
    /\ t = 0
    /\ beta = <<Beta, 1>>
    /\ beta_layer = [k \in {} |-> <<0, 1>>]
    /\ people = [ever_exposed |-> 0, exposed |-> 0, infectious |-> 0]
    /\ n_exposed = [d \in Slots |-> 0]
    /\ new_infections = [d \in Slots |-> 0]
    /\ start_day = 0
    /\ beta0 = <<0, 1>>
    /\ beta_layer0 = [k \in {} |-> <<0, 1>>]
    /\ u_k = [d \in {} |-> <<0, 1>>]
    /\ integrated_err = 0
    /\ EIhat = [i \in {} |-> 0]
    /\ pc = "idle"
    /\ apply_calls = 0
    /\ kalman_updates = 0
    /\ control_calls = 0
    /\ last = NoCall

loop_vars == <<host_vars, self_vars, call_vars, pc>>

\* floor of the square root
RECURSIVE ISqrtFrom(_, _)
ISqrtFrom(x, s) == IF (s + 1) * (s + 1) > x THEN s ELSE ISqrtFrom(x, s + 1)

ISqrt(x) == ISqrtFrom(x, 0)

\* n = int((-1 + np.sqrt(1 + 8*len(p))) / 2)
TriSize(k) == (ISqrt(1 + 8 * k) - 1) \div 2

\* variant: the lower triangle is walked column by column
RECURSIVE TrilIndices_ColumnMajor(_)
TrilIndices_ColumnMajor(n) ==
    IF n = 0 THEN <<>>
    ELSE LET Col(j) == [m \in 1 .. n - j |-> <<j + m - 1, j>>]
             RECURSIVE Cols(_)
             Cols(j) == IF j = n THEN <<>> ELSE Col(j) \o Cols(j + 1)
         IN  Cols(0)

\* np.tril_indices(n): the (row, column) pairs of the lower triangle, 0-based,
\* row by row
RECURSIVE TrilIndices(_)
TrilIndices(n) ==
    IF n = 0 THEN <<>>
    ELSE TrilIndices(n - 1) \o [m \in 1 .. n |-> <<n - 1, m - 1>>]

\* np.ravel_multi_index(ij, (n, n))
RavelMultiIndex(ij, n) == ij[1] * n + ij[2]

\* np.put(M, ind, v) on the flat view of M: v is repeated if it is shorter
\* than ind, and its surplus is ignored if it is longer
Put(flat, ind, v) ==
    [q \in DOMAIN flat |->
        IF \E m \in 1 .. Len(ind) : ind[m] = q
        THEN LET m == CHOOSE m \in 1 .. Len(ind) :
                         /\ ind[m] = q
                         /\ \A m2 \in m + 1 .. Len(ind) : ind[m2] # q
             IN  v[((m - 1) % Len(v)) + 1]
        ELSE flat[q]]

\* TransitionMatrix.full(p): the matrix as a sequence of rows
TMFull(p) ==
    LET n == TriSize(Len(p))
        zeros == [q \in 0 .. n * n - 1 |-> 0]
        tril == TrilIndices(n)
        ind == [m \in 1 .. Len(tril) |-> RavelMultiIndex(tril[m], n)]
        flat == Put(zeros, ind, p)
    IN  [i \in 1 .. n |-> [j \in 1 .. n |-> flat[(i - 1) * n + (j - 1)]]]

\* values of the entries, in halves: 0, 1/2, 1
FlatValues == {0, 1, 2}

FlatInputs == UNION {[1 .. k -> FlatValues] : k \in 1 .. MaxFlat}

InitTM ==
    /\ LoopIdle
    /\ seir = SeirIdle
    /\ reps = RepsIdle
    /\ \E p \in FlatInputs : tm = [pc |-> "called", p |-> p, M |-> <<>>]

Full ==
    /\ tm.pc = "called"
    /\ tm' = [tm EXCEPT !.pc = "returned", !.M = TMFull(tm.p)]
    /\ UNCHANGED <<loop_vars, seir, reps>>

NextTM == Full

SpecTM == InitTM /\ [][NextTM]_vars

(* --------------------------------- SEIR -------------------------------- *)
(* Matrices are sequences of rows.  Entries of EI, IR and A are kept as    *)
(* integer multiples of 1/Denom, so a probability 1 is the integer Denom.  *)

ColSum(M, c) == SumTo([r \in 1 .. Len(M) |-> M[r][c]], Len(M))

\* lower-triangular n-by-n matrices, entries in [0,1], column sums <= 1
SubMatrices(n) ==
    {M \in [1 .. n -> [1 .. n -> 0 .. Denom]] :
        /\ \A i, j \in 1 .. n : j > i => M[i][j] = 0
        /\ \A j \in 1 .. n : ColSum(M, j) <= Denom}

StageMatrices == UNION {SubMatrices(n) : n \in 1 .. MaxStages}

\* the attributes __init__ sets before it calls _build (lines 19-23)
InitAttrs == {"nSteps", "dt", "EI", "IR", "C"}

\* the methods the class body defines (the controllability check is only text
\* inside a string literal)
ClassAttrs == {"__init__", "_build", "check_observability", "step"}

\* self.<name> resolves
Defined(name) == name \in InitAttrs \cup ClassAttrs

\* lines 33-44: the block matrix A, with nEI = EI.shape[0], nIR = IR.shape[0]
BuildA(EI, IR) ==
    LET nEI == Len(EI)
        nIR == Len(IR)
        n == 2 + nEI + nIR
        belowEI == [i \in 1 .. nIR |-> [j \in 1 .. nEI |->
                       IF i = 1 THEN Denom - ColSum(EI, j) ELSE 0]]
        belowIR == [j \in 1 .. nIR |-> Denom - ColSum(IR, j)]
    IN  [r \in 1 .. n |-> [c \in 1 .. n |->
            IF r = 1 THEN (IF c = 1 THEN Denom ELSE 0)
            ELSE IF r <= 1 + nEI
                 THEN (IF c >= 2 /\ c <= 1 + nEI THEN EI[r - 1][c - 1] ELSE 0)
            ELSE IF r <= 1 + nEI + nIR
                 THEN (IF c >= 2 /\ c <= 1 + nEI THEN belowEI[r - 1 - nEI][c - 1]
                       ELSE IF c >= 2 + nEI /\ c <= 1 + nEI + nIR
                            THEN IR[r - 1 - nEI][c - 1 - nEI]
                       ELSE 0)
            ELSE (IF c >= 2 + nEI /\ c <= 1 + nEI + nIR THEN belowIR[c - 1 - nEI]
                  ELSE IF c = n THEN Denom
                  ELSE 0)]]

\* lines 46-48: the control-input column B
BuildB(EI, IR) ==
    [r \in 1 .. 2 + Len(EI) + Len(IR) |->
        IF r = 1 THEN 0 - 1 ELSE IF r = 2 THEN 1 ELSE 0]

\* lines 50-52: the observation row, when self.C is not None
BuildC(EI, IR) ==
    LET n == 2 + Len(EI) + Len(IR)
    IN  [c \in 1 .. n |-> IF c > 1 /\ c < n THEN 1 ELSE 0]

\* M[1:-1, 1:-1]
Inner(M) ==
    [r \in 1 .. Len(M) - 2 |-> [c \in 1 .. Len(M) - 2 |-> M[r + 1][c + 1]]]

\* the row vector v times the square matrix M
RowTimes(v, M) ==
    [c \in 1 .. Len(M) |-> SumTo([r \in 1 .. Len(M) |-> v[r] * M[r][c]], Len(M))]

\* lines 60-63: the rows C, C*A, ..., C*A^(k-1) stacked
RECURSIVE Omats(_, _, _)
Omats(C, A, k) ==
    IF k = 1 THEN <<C>>
    ELSE LET prev == Omats(C, A, k - 1)
         IN  Append(prev, RowTimes(prev[Len(prev)], A))

\* M without its first row and its column c
Minor(M, c) ==
    [r \in 1 .. Len(M) - 1 |-> [j \in 1 .. Len(M) - 1 |->
        M[r + 1][IF j < c THEN j ELSE j + 1]]]

RECURSIVE Det(_)
Det(M) ==
    IF Len(M) = 0 THEN 1
    ELSE SumTo([c \in 1 .. Len(M) |->
                   (IF c % 2 = 1 THEN 1 ELSE 0 - 1) * M[1][c] * Det(Minor(M, c))],
               Len(M))

\* line 64: np.linalg.matrix_rank(obs_mat) == nEIR, for the square obs_mat
FullRank(M) == Det(M) # 0

\* the E/I subsystem of the model built from EI and IR is observable
Observable(EI, IR) ==
    LET A == Inner(BuildA(EI, IR))
        C == [c \in 1 .. Len(A) |-> 1]
    IN  FullRank(Omats(C, A, Len(A)))

NotBuilt == <<>>

\* SEIR(nSteps, dt, EI, IR, C) is being called
InitSEIR ==
    /\ LoopIdle
    /\ tm = TmIdle
    /\ reps = RepsIdle
    /\ \E EI \in StageMatrices, IR \in StageMatrices, Creq \in BOOLEAN :
          seir = [pc |-> "called", EI |-> EI, IR |-> IR, Creq |-> Creq,
                  A |-> NotBuilt, B |-> NotBuilt, C |-> NotBuilt,
                  error |-> "none", line |-> 0]

\* how far the constructor gets: "returned", or the error and its line
ConstructOutcome(EI, IR, Creq) ==
    IF ~(Defined("nIR") /\ Defined("nEI"))
    THEN [error |-> "AttributeError", line |-> 33, built |-> FALSE]
    ELSE IF ~Defined("check_controllability")
    THEN [error |-> "AttributeError", line |-> 26, built |-> TRUE]
    ELSE IF ~Creq
    THEN [error |-> "TypeError", line |-> 58, built |-> TRUE]
    ELSE IF ~Defined("nEIR")
    THEN [error |-> "AttributeError", line |-> 61, built |-> TRUE]
    ELSE IF ~Observable(EI, IR)
    THEN [error |-> "AssertionError", line |-> 64, built |-> TRUE]
    ELSE [error |-> "none", line |-> 29, built |-> TRUE]

\* SEIR.__init__ with the calls it makes: _build, check_controllability,
\* check_observability
Construct ==
    /\ seir.pc = "called"
    /\ LET out == ConstructOutcome(seir.EI, seir.IR, seir.Creq)
       IN  seir' = [seir EXCEPT
                      !.pc = IF out.error = "none" THEN "constructed" ELSE "raised",
                      !.error = out.error,
                      !.line = out.line,
                      !.A = IF out.built THEN BuildA(seir.EI, seir.IR) ELSE NotBuilt,
                      !.B = IF out.built THEN BuildB(seir.EI, seir.IR) ELSE NotBuilt,
                      !.C = IF out.built /\ seir.Creq
                            THEN BuildC(seir.EI, seir.IR) ELSE NotBuilt]
    /\ UNCHANGED <<loop_vars, tm, reps>>

NextSEIR == Construct

SpecSEIR == InitSEIR /\ [][NextSEIR]_vars

(* Lines 36-48 taken alone, with nEI and nIR read as EI.shape[0] and       *)
(* IR.shape[0]: the matrices the build would assemble if it ran, and the   *)
(* state-space step x' = A x + B u on them.  After k steps the state is    *)
(* kept as the integer vector Denom^k * x.                                 *)

StateValues == {0, 1}
ControlValues == {0, 1}

\* Denom^k * (A x + B u) from the integer vector X = Denom^(k-1) * x
ModelStepValue(A, B, X, u, k) ==
    [r \in 1 .. Len(A) |->
        SumTo([c \in 1 .. Len(A) |-> A[r][c] * X[c]], Len(A))
            + Pow(Denom, k) * B[r] * u]

InitAssembly ==
    /\ LoopIdle
    /\ tm = TmIdle
    /\ reps = RepsIdle
    /\ \E EI \in StageMatrices, IR \in StageMatrices :
          seir = [pc |-> "given", EI |-> EI, IR |-> IR,
                  A |-> NotBuilt, B |-> NotBuilt,
                  x |-> <<>>, prev |-> <<>>, u |-> 0, k |-> 0]

Assemble ==
    /\ seir.pc = "given"
    /\ \E x0 \in [1 .. 2 + Len(seir.EI) + Len(seir.IR) -> StateValues] :
          seir' = [seir EXCEPT !.pc = "assembled",
                               !.A = BuildA(seir.EI, seir.IR),
                               !.B = BuildB(seir.EI, seir.IR),
                               !.x = x0, !.prev = x0]
    /\ UNCHANGED <<loop_vars, tm, reps>>

ModelStep ==
    /\ seir.pc = "assembled"
    /\ seir.k < MaxSteps
    /\ \E u \in ControlValues :
          seir' = [seir EXCEPT
                     !.x = ModelStepValue(seir.A, seir.B, seir.x, u, seir.k + 1),
                     !.prev = seir.x, !.u = u, !.k = seir.k + 1]
    /\ UNCHANGED <<loop_vars, tm, reps>>

NextAssembly == Assemble \/ ModelStep

SpecAssembly == InitAssembly /\ [][NextAssembly]_vars

(* ------------------------------ replicates ----------------------------- *)
(* Two host sims, each with its own orchestrator, as Python sees them:     *)
(* objects at addresses, attributes that hold references.  A write goes to *)
(* the object the reference leads to, so two references to one object see  *)
(* each other's writes.                                                    *)

Reps == {1, 2}
RepSlots == 0 .. RepDays

NoRef == <<"None", 0>>
ModelAddr == <<"SEIR", 1>>

\* sim.pars['beta_layer'] of replicate r's host
SimDict(r) == <<"sim.pars.beta_layer", r>>

\* variant: the host's dict is stored without .copy()
CopyDict_Alias(r) == SimDict(r)

\* line 43: .copy() makes a new dict
CopyDict(r) == <<"self.beta_layer0", r>>

\* variant: one estimator is kept for all orchestrators
NewKalman_Singleton(r) == <<"self.Kalman", 1>>

\* line 47: kf(...) makes a new estimator
NewKalman(r) == <<"self.Kalman", r>>

DictAddrs == {SimDict(r) : r \in Reps} \cup {<<"self.beta_layer0", r>> : r \in Reps}
KalmanAddrs == {<<"self.Kalman", r>> : r \in Reps}

\* what the host reports on a day: S, I and yesterday's exposed count
RepObservations == [S : {0, PopSize}, I : InfectiousCounts, y : SeedCounts,
                    new_infections : {1}]

\* line 66
RepOpenLoop(day, start, obs) == day < start \/ obs.S * obs.I = 0

\* lines 103-112
RepNewBeta(u, obs, xi, ipow, b0) ==
    IF xi > 0
    THEN RatDiv(RatMax0(RatDiv(<<u, 1>>, Rat(obs.S * Pow(xi, ipow), PopSize))),
                <<LayerDivisor, 1>>)
    ELSE b0

\* number of leading keys of ControlledLayers that the dict bl0 has
RECURSIVE RepKnownPrefix(_, _)
RepKnownPrefix(bl0, i) ==
    IF i > Len(ControlledLayers) THEN i - 1
    ELSE IF ControlledLayers[i] \in DOMAIN bl0 THEN RepKnownPrefix(bl0, i + 1)
    ELSE i - 1

\* lines 119-120 on the dict bl, reading the stored dict bl0
RepWriteLayers(bl, bl0, b0, new_beta) ==
    LET written == {ControlledLayers[i] : i \in 1 .. RepKnownPrefix(bl0, 1)}
    IN  [k \in DOMAIN bl \cup written |->
            IF k \in written THEN RatDiv(RatMul(bl0[k], new_beta), b0)
            ELSE bl[k]]

\* the sub-transition matrices of the model object the orchestrators get
GivenEI == [i \in 1 .. nE |-> [j \in 1 .. nE |-> IF i = j THEN 1 ELSE 0]]
GivenIR == [i \in 1 .. nI |-> [j \in 1 .. nI |-> IF i = j THEN 1 ELSE 0]]

\* the model object as it is when the orchestrators get it
GivenModel ==
    [Ipow |-> Ipow, X |-> 0,
     A |-> BuildA(GivenEI, GivenIR),
     B |-> BuildB(GivenEI, GivenIR),
     C |-> BuildC(GivenEI, GivenIR)]

\* both orchestrators constructed (lines 22-38) from the same model object,
\* each host sim built
InitReps ==
    /\ LoopIdle
    /\ seir = SeirIdle
    /\ tm = TmIdle
    /\ \E ks \in HostLayerSets, start \in 0 .. MaxStart :
          reps = [pc |-> "running",
                  models |-> [a \in {ModelAddr} |-> GivenModel],
                  step_calls |-> 0,
                  dicts |-> [a \in DictAddrs \cup {NoRef} |->
                               IF a \in {SimDict(r) : r \in Reps}
                               THEN [k \in ks |-> <<HostLayerRate(k), 1>>]
                               ELSE <<>>],
                  kalmans |-> [a \in KalmanAddrs \cup {NoRef} |-> <<>>],
                  sim |-> [r \in Reps |->
                             [t |-> 0, beta |-> <<Beta, 1>>, beta_layer |-> SimDict(r)]],
                  orch |-> [r \in Reps |->
                             [pc |-> "constructed",
                              SEIR |-> ModelAddr,
                              Kalman |-> NoRef,
                              start_day |-> start,
                              beta0 |-> <<0, 1>>,
                              beta_layer0 |-> NoRef,
                              u_k |-> <<>>,
                              integrated_err |-> 0,
                              applies |-> 0]]]

\* initialize(sim) of replicate r's orchestrator (lines 41-49)
RepInitialize ==
    \E r \in Reps, exposed \in SeedCounts :
        /\ reps.pc = "running"
        /\ reps.orch[r].pc = "constructed"
        /\ LET sim == reps.sim[r]
           IN  reps' = [reps EXCEPT
                  !.dicts[CopyDict(r)] = reps.dicts[sim.beta_layer],
                  !.kalmans[NewKalman(r)] = KalmanInit(exposed),
                  !.orch[r].beta0 = sim.beta,
                  !.orch[r].beta_layer0 = CopyDict(r),
                  !.orch[r].u_k = [d \in RepSlots |-> sim.beta],
                  !.orch[r].Kalman = NewKalman(r),
                  !.orch[r].pc = "apply"]
        /\ UNCHANGED <<loop_vars, seir, tm>>

\* apply(sim) of replicate r, open-loop branch (lines 52-68)
RepApplyOpen ==
    \E r \in Reps, obs \in RepObservations :
        /\ reps.pc = "running"
        /\ reps.orch[r].pc = "apply"
        /\ LET self == reps.orch[r]
           IN  /\ RepOpenLoop(reps.sim[r].t, self.start_day, obs)
               /\ \E xhat \in KalmanUpdate(reps.kalmans[self.Kalman],
                                          obs.y - obs.I, obs.I, obs.new_infections) :
                     reps' = [reps EXCEPT
                                !.kalmans[self.Kalman] = xhat,
                                !.orch[r].applies = self.applies + 1,
                                !.orch[r].pc = "step"]
        /\ UNCHANGED <<loop_vars, seir, tm>>

\* apply(sim) of replicate r, closed-loop branch (lines 52-128)
RepApplyClosed ==
    \E r \in Reps, obs \in RepObservations :
        /\ reps.pc = "running"
        /\ reps.orch[r].pc = "apply"
        /\ LET self == reps.orch[r]
               sim == reps.sim[r]
               Xu == Append(reps.kalmans[self.Kalman], self.integrated_err)
               u == ClampControl(GetControl(Xu))
               bl0 == reps.dicts[self.beta_layer0]
               raises == RepKnownPrefix(bl0, 1) < Len(ControlledLayers)
           IN  /\ ~RepOpenLoop(sim.t, self.start_day, obs)
               /\ \E xhat \in KalmanUpdate(reps.kalmans[self.Kalman],
                                          obs.y - obs.I, obs.I, u) :
                     LET new_beta == RepNewBeta(u, obs, EffectiveInfectious(Ihat(xhat)),
                                                reps.models[self.SEIR].Ipow, self.beta0)
                         afterKalman == [reps EXCEPT !.kalmans[self.Kalman] = xhat]
                         afterLoop == [afterKalman EXCEPT
                             !.dicts[sim.beta_layer] =
                                 RepWriteLayers(afterKalman.dicts[sim.beta_layer],
                                                afterKalman.dicts[self.beta_layer0],
                                                self.beta0, new_beta),
                             !.orch[r].applies = self.applies + 1]
                     IN  reps' =
                           IF raises
                           THEN [afterLoop EXCEPT !.orch[r].pc = "raised"]
                           ELSE [afterLoop EXCEPT
                                   !.orch[r].u_k[sim.t] = new_beta,
                                   !.orch[r].integrated_err =
                                       NextIntegratedErr(self.integrated_err, obs.y),
                                   !.orch[r].pc = "step"]
        /\ UNCHANGED <<loop_vars, seir, tm>>

\* the rest of replicate r's sim.step
RepHostStep ==
    \E r \in Reps :
        /\ reps.pc = "running"
        /\ reps.orch[r].pc = "step"
        /\ reps' = [reps EXCEPT
                      !.sim[r].t = reps.sim[r].t + 1,
                      !.orch[r].pc = IF reps.sim[r].t < RepDays THEN "apply" ELSE "done"]
        /\ UNCHANGED <<loop_vars, seir, tm>>

\* variant: step writes a column of the trajectory matrix X
RepModelStep_WritesX ==
    /\ reps.pc = "running"
    /\ reps.step_calls = 0
    /\ reps' = [reps EXCEPT !.step_calls = 1, !.models[ModelAddr].X = 1]
    /\ UNCHANGED <<loop_vars, seir, tm>>

\* SEIR.step(dt) on the shared model object: the body is 'pass'
RepModelStep ==
    /\ reps.pc = "running"
    /\ reps.step_calls = 0
    /\ reps' = [reps EXCEPT !.step_calls = 1]
    /\ UNCHANGED <<loop_vars, seir, tm>>

NextReps ==
    RepInitialize \/ RepApplyOpen \/ RepApplyClosed \/ RepHostStep \/ RepModelStep

SpecReps == InitReps /\ [][NextReps]_vars

(* ------------------------------ the claims ----------------------------- *)
\* the day apply is about to handle is a closed-loop day
ClosedLoopDay == t >= start_day /\ Observed_S # 0 /\ Observed_I # 0

\* this step is an apply call
ApplyCalled == apply_calls' = apply_calls + 1

\* C1: over any sequence of apply calls the estimator has been updated
\* exactly once per call, open-loop and closed-loop calls alike.
C1_UpdateOncePerApply == kalman_updates = apply_calls

\* a full run in which both regimes occurred
C1_Witness ==
    /\ pc = "done"
    /\ apply_calls = NDays + 1
    /\ control_calls >= 1
    /\ control_calls < apply_calls

\* C2: get_control is invoked only by an apply on a closed-loop day, exactly
\* once on each such day, and never when t < start_day, S = 0 or I = 0.
C2_ControlOnlyClosedLoop ==
    [][ /\ (control_calls' # control_calls =>
               /\ ApplyCalled
               /\ ClosedLoopDay
               /\ control_calls' = control_calls + 1)
        /\ (ApplyCalled /\ ClosedLoopDay => control_calls' = control_calls + 1)
        /\ (ApplyCalled /\ ~ClosedLoopDay => control_calls' = control_calls) ]_vars

\* a degenerate day after start_day went by without a get_control call
C2_Witness ==
    /\ pc = "step"
    /\ t >= start_day
    /\ last.regime = "open"
    /\ control_calls >= 1
    /\ Observed_S * Observed_I = 0

\* C3: an open-loop apply leaves every layer rate of the host as it was, and
\* on all days t < start_day the rates are those captured at initialize.
C3_OpenLoopKeepsRates ==
    /\ [](pc # "constructed" /\ t < start_day => beta_layer = beta_layer0)
    /\ [][ApplyCalled /\ ~ClosedLoopDay =>
              /\ beta_layer' = beta_layer
              /\ beta' = beta]_vars

\* a degenerate day after the rates had been moved away from the originals
C3_Witness ==
    /\ pc = "step"
    /\ last.regime = "open"
    /\ beta_layer # beta_layer0

\* C4: the control passed to the estimator update is never negative; on a
\* closed-loop day it is max(u, 0) of the controller output, and a negative
\* output is not what ends the loop.
C4_ControlClamped ==
    /\ last.u >= 0
    /\ last.regime = "closed" =>
          /\ last.u = (IF last.u_raw > 0 THEN last.u_raw ELSE 0)
          /\ (last.u_raw < 0 /\ pc = "raised" =>
                 \E i \in 1 .. Len(ControlledLayers) :
                    ControlledLayers[i] \notin DOMAIN beta_layer0)

\* a negative controller output was clamped and the loop went on
C4_Witness ==
    /\ pc = "done"
    /\ last.regime = "closed"
    /\ last.u_raw < 0
    /\ last.u = 0

\* the controlled layer keys, as a set
ControlledSet == {ControlledLayers[i] : i \in 1 .. Len(ControlledLayers)}

\* C5: after a closed-loop apply with I_eff <= 0 the rate of the day is the
\* baseline rate (no quotient by I_eff is formed) and every controlled layer
\* of the host has its original rate.
C5_FallbackBaseline ==
    last.regime = "closed" /\ last.xi <= 0 =>
        /\ last.new_beta = beta0
        /\ \A k \in ControlledSet \cap DOMAIN beta_layer :
              beta_layer[k] = beta_layer0[k]

\* I_eff is exactly 0 the day after a day that moved the rates
C5_Witness ==
    /\ pc = "step"
    /\ t >= 1
    /\ last.regime = "closed"
    /\ last.xi = 0
    /\ ~last.raised
    /\ u_k[t - 1] # beta0
    /\ u_k[t] = beta0

\* C6 as stated: after a closed-loop apply every layer of the host's mapping
\* is its original rate times new_rate / baseline_rate.
C6_AllLayersScaled ==
    last.regime = "closed" =>
        \A k \in DOMAIN beta_layer :
            RatEq(RatMul(beta_layer[k], beta0),
                  RatMul(beta_layer0[k], last.new_beta))

\* C6 amended: after a closed-loop apply the layers the call wrote (keys among
\* h, s, w, c, l; all five when the call returns) are their original rates
\* times the one multiplier new_rate / baseline_rate, so their mutual ratios
\* are the original ones; every other layer of the mapping has its original
\* rate.
C6_ControlledLayersScaled ==
    last.regime = "closed" =>
        /\ last.written \subseteq ControlledSet
        /\ ~last.raised => last.written = ControlledSet
        /\ \A k \in last.written :
              ProdEq(beta_layer[k], beta0, beta_layer0[k], last.new_beta)
        /\ \A i, j \in 1 .. Len(ControlledLayers) :
              LET k1 == ControlledLayers[i]
                  k2 == ControlledLayers[j]
              IN  (i < j /\ k1 \in last.written /\ k2 \in last.written)
                      => ProdEq(beta_layer[k1], beta_layer0[k2],
                                beta_layer[k2], beta_layer0[k1])
        /\ \A k \in DOMAIN beta_layer \ last.written :
              beta_layer[k] = beta_layer0[k]

\* a returned closed-loop apply with a multiplier other than 1 on a host that
\* has a layer besides the five
C6_Witness ==
    /\ pc = "step"
    /\ last.regime = "closed"
    /\ ~last.raised
    /\ last.new_beta # beta0
    /\ last.new_beta # <<0, 1>>
    /\ DOMAIN beta_layer # ControlledSet

\* C7: on every closed-loop day the integral error after apply is the one
\* before plus (observed output - target).
C7_IntegralErrorStep ==
    [][ApplyCalled /\ ClosedLoopDay =>
          integrated_err' = integrated_err + Observed_y - Target]_vars

\* the same on the closed-loop days whose apply returns
C7_IntegralErrorStepOnReturn ==
    [][ApplyCalled /\ ClosedLoopDay /\ pc' = "step" =>
          integrated_err' = integrated_err + Observed_y - Target]_vars

\* C8: the integral error is 0 until the first closed-loop apply, and only a
\* closed-loop apply changes it: initialize, open-loop applies and the
\* host's own steps leave it as it is.
C8_IntegralErrorKept ==
    /\ [](control_calls = 0 => integrated_err = 0)
    /\ [][integrated_err' # integrated_err => ApplyCalled /\ ClosedLoopDay]_vars

\* days 0 and 2 closed-loop, day 1 degenerate: the error after day 2 is the
\* sum of the two closed-loop days' errors
C8_Witness ==
    /\ pc = "step"
    /\ t = 2
    /\ start_day = 0
    /\ apply_calls = 3
    /\ control_calls = 2
    /\ u_k[0] # beta0
    /\ last.regime = "closed"
    /\ integrated_err # 0
    /\ integrated_err = (0 - Target) + (n_exposed[1] - Target)

\* C9: once initialize has run, no apply call raises to the host's day loop.
C9_NoErrorReachesHost == pc # "raised"


\* k is n(n+1)/2 for a positive integer n
IsTriangular(k) == \E n \in 1 .. k : n * (n + 1) = 2 * k

\* the row-major flattening of the lower triangle of M
TrilFlatten(M) ==
    LET n == Len(M)
        RowOf(m) == CHOOSE i \in 1 .. n :
                       (i * (i - 1)) \div 2 < m /\ m <= (i * (i + 1)) \div 2
    IN  [m \in 1 .. (n * (n + 1)) \div 2 |->
            M[RowOf(m)][m - (RowOf(m) * (RowOf(m) - 1)) \div 2]]

\* C14: for a sequence of n(n+1)/2 values, full returns the n-by-n matrix
\* with the values at the lower-triangular positions in row-major order and 0
\* above the diagonal; flattening that matrix and expanding it again gives
\* the same matrix.
C14_RoundTrip ==
    tm.pc = "returned" /\ IsTriangular(Len(tm.p)) =>
        LET n == Len(tm.M)
        IN  /\ n * (n + 1) = 2 * Len(tm.p)
            /\ \A i \in 1 .. n :
                  /\ Len(tm.M[i]) = n
                  /\ \A j \in 1 .. n :
                        tm.M[i][j] = IF j <= i
                                     THEN tm.p[(i * (i - 1)) \div 2 + j]
                                     ELSE 0
            /\ TrilFlatten(tm.M) = tm.p
            /\ TMFull(TrilFlatten(tm.M)) = tm.M

\* a 3-by-3 matrix with a full lower triangle came back
C14_Witness ==
    /\ tm.pc = "returned"
    /\ Len(tm.p) = 6
    /\ tm.M = << <<1, 0, 0>>, <<2, 1, 0>>, <<1, 2, 2>> >>

\* C15: full returns only for inputs whose length is a triangular number
\* (for any other length it has failed).
C15_NonTriangularFails == tm.pc = "returned" => IsTriangular(Len(tm.p))

\* the constructor has returned or raised
ConstructFinished == seir.pc \in {"constructed", "raised"}

\* the constructor got as far as assembling A and B
Assembled == seir.A # NotBuilt /\ seir.B # NotBuilt

\* C11: constructing the model from EI and IR whose E/I subsystem is
\* observable, with the observation row requested, completes and leaves the
\* assembled A, B and C on the object (violated: the constructor raises
\* AttributeError at line 33 for every input).
C11_ObservableConstructs ==
    (ConstructFinished /\ seir.Creq /\ Observable(seir.EI, seir.IR))
        => /\ seir.pc = "constructed"
           /\ seir.A = BuildA(seir.EI, seir.IR)
           /\ seir.B = BuildB(seir.EI, seir.IR)
           /\ seir.C = BuildC(seir.EI, seir.IR)

\* C12: when the observability matrix of the E/I subsystem has rank below
\* nE + nI, construction fails in the observability check of line 64
\* (violated: the failure is the AttributeError of line 33, raised before the
\* check is reached; the check itself raises AssertionError).
C12_UnobservableFailsInCheck ==
    (ConstructFinished /\ seir.Creq /\ ~Observable(seir.EI, seir.IR))
        => /\ seir.pc = "raised"
           /\ seir.line = 64

\* C13: once the constructor has finished, A is assembled and each of its
\* columns sums to 1 (violated: no A is ever assembled).
C13_ColumnsSumToOne ==
    ConstructFinished
        => /\ Assembled
           /\ \A c \in 1 .. Len(seir.A) : ColSum(seir.A, c) = Denom

\* C16: once the constructor has finished, one step x' = A x + B u of the
\* assembled model changes S by -u, adds u to the first E stage and to no
\* other component (violated: no A or B is ever assembled).
C16_ControlEntersSAndE1 ==
    ConstructFinished
        => /\ Assembled
           /\ \A x \in [1 .. Len(seir.A) -> StateValues], u \in ControlValues :
                 LET free == ModelStepValue(seir.A, seir.B, x, 0, 1)
                     ctl == ModelStepValue(seir.A, seir.B, x, u, 1)
                 IN  /\ ctl[1] = Denom * x[1] - Denom * u
                     /\ ctl[2] = free[2] + Denom * u
                     /\ \A r \in 3 .. Len(seir.A) : ctl[r] = free[r]

\* C17: once the constructor has finished, a step of the assembled model
\* from a non-negative state with non-negative control never decreases R,
\* and R's row draws only on the I stages and R itself (violated: no A or B
\* is ever assembled).
C17_RemovedNeverDecreases ==
    ConstructFinished
        => /\ Assembled
           /\ LET n == Len(seir.A)
                  firstI == 2 + Len(seir.EI)
              IN  /\ \A c \in 1 .. firstI - 1 : seir.A[n][c] = 0
                  /\ \A x \in [1 .. n -> StateValues], u \in ControlValues :
                        ModelStepValue(seir.A, seir.B, x, u, 1)[n] >= Denom * x[n]

\* lines 36-44 taken alone: every column of the assembled A sums to 1
Assembly_ColumnsSumToOne ==
    seir.pc = "assembled"
        => \A c \in 1 .. Len(seir.A) : ColSum(seir.A, c) = Denom

\* lines 36-48 taken alone: a step moves u out of S into the first E stage
Assembly_ControlEntersSAndE1 ==
    (seir.pc = "assembled" /\ seir.k > 0)
        => LET free == ModelStepValue(seir.A, seir.B, seir.prev, 0, seir.k)
               scale == Pow(Denom, seir.k)
           IN  /\ seir.x[1] = Denom * seir.prev[1] - scale * seir.u
               /\ seir.x[2] = free[2] + scale * seir.u
               /\ \A r \in 3 .. Len(seir.A) : seir.x[r] = free[r]

\* lines 36-48 taken alone: R never decreases and is fed by I stages only
Assembly_RemovedNeverDecreases ==
    (seir.pc = "assembled" /\ seir.k > 0)
        => LET n == Len(seir.A)
           IN  /\ seir.x[n] >= Denom * seir.prev[n]
               /\ \A c \in 1 .. 1 + Len(seir.EI) : seir.A[n][c] = 0

\* a model step that moved a unit of control and fed R from an I stage
Assembly_Witness ==
    /\ seir.pc = "assembled" /\ seir.k = MaxSteps /\ seir.u = 1
    /\ seir.x[Len(seir.A)] > Denom * seir.prev[Len(seir.A)]

\* an apply call has just run on the current day: the host has not yet moved
ApplyJustRan == pc \in {"step", "raised"}

\* the estimated infectious sub-stages, the first three counted twice
DoubledEarlyInfectious ==
    SumTo([i \in 1 .. nI |-> (IF i <= 3 THEN 2 ELSE 1) * EIhat[nE + i]], nI)

\* max(u / (S * xi^Ipow / N), 0) / d for S, xi, N > 0
RateOver(u, S, xi, N, d) ==
    IF u > 0 THEN Rat(u * N, S * Pow(xi, Ipow) * d) ELSE <<0, 1>>

\* C18 as stated: on a closed-loop day with I_eff > 0 the new rate is
\* max(u / (S * I_eff / N), 0) divided by the number of contact layers of the
\* host.
C18_DividedByLayerCount ==
    (ApplyJustRan /\ last.regime = "closed" /\ last.xi > 0)
        => RatEq(last.new_beta,
                 RateOver(last.u, Observed_S, last.xi, Observed_N,
                          Cardinality(DOMAIN beta_layer)))

\* C18, amended: on a closed-loop day with I_eff > 0 the new rate is
\* max(u / (S * I_eff^Ipow / N), 0) divided by the fixed constant 18, where
\* I_eff is the sum of the estimated infectious sub-stages plus the first
\* three counted a second time and u is the clamped control.
C18_DividedByFixedConstant ==
    (ApplyJustRan /\ last.regime = "closed")
        => /\ last.xi = DoubledEarlyInfectious
           /\ last.u = ClampControl(last.u_raw)
           /\ last.xi > 0
                => RatEq(last.new_beta,
                         RateOver(last.u, Observed_S, last.xi, Observed_N, 18))

\* a closed-loop day with a positive control and an early sub-stage estimate
\* that counts twice
C18_Witness ==
    /\ pc = "step"
    /\ last.regime = "closed"
    /\ last.u > 0
    /\ EIhat[nE + 1] = 1
    /\ last.xi = 2
    /\ last.new_beta # beta0
    /\ Cardinality(DOMAIN beta_layer) # 18

\* C19 as stated: after a closed-loop apply the diagnostic entry at the
\* day's index is the clamped control u requested that day.
C19_RecordsClampedControl ==
    (pc = "step" /\ last.regime = "closed") => RatEq(u_k[t], <<last.u, 1>>)

\* C19, amended: a closed-loop apply that returns records at the day's
\* index the new rate computed that day; every other step after initialize
\* (open-loop apply, an apply that raises, the host's step) leaves all
\* entries alone, and the entries of days not yet handled hold the initial
\* value, the host's baseline rate.
C19_RecordsNewRate ==
    /\ [](pc = "apply" => \A d \in Slots : d >= t => u_k[d] = beta0)
    /\ [][pc # "constructed" =>
            IF ApplyCalled /\ ClosedLoopDay /\ pc' = "step"
            THEN u_k' = [u_k EXCEPT ![t] = last'.new_beta]
            ELSE u_k' = u_k]_vars

\* day 0 open-loop keeps its entry, day 1 closed-loop records a rate that is
\* neither the baseline nor the clamped control
C19_Witness ==
    /\ pc = "step"
    /\ t = 1
    /\ last.regime = "closed"
    /\ last.u > 0
    /\ last.xi > 0
    /\ u_k[0] = beta0
    /\ u_k[1] = last.new_beta
    /\ u_k[1] # beta0
    /\ ~RatEq(u_k[1], <<last.u, 1>>)

\* this step is an apply call of replicate r's orchestrator
AppliedOn(r) == reps'.orch[r].applies = reps.orch[r].applies + 1

\* replicate o's state as its own objects show it: the state estimate, the
\* integral error, the stored baseline rates and the host's rate parameters
RepView(o) ==
    [EIhat |-> reps.kalmans[reps.orch[o].Kalman],
     integrated_err |-> reps.orch[o].integrated_err,
     beta0 |-> reps.orch[o].beta0,
     beta_layer0 |-> reps.dicts[reps.orch[o].beta_layer0],
     beta_layer |-> reps.dicts[reps.sim[o].beta_layer],
     u_k |-> reps.orch[o].u_k]

\* C20: with two replicates that each own an orchestrator, estimator and
\* controller built from one shared model object, and apply calls interleaved
\* in any order, an apply on one replicate changes no state of the other
\* (state estimate, integral error, stored baseline rates, rate parameters),
\* and the shared model object is only read.
C20_ReplicatesIsolated ==
    [][\A r \in Reps :
          AppliedOn(r) =>
              /\ \A o \in Reps \ {r} : RepView(o)' = RepView(o)
              /\ reps'.models = reps.models]_vars

\* both replicates have run an apply on the shared model, the first one in
\* closed loop, and have ended with different estimates, integral errors and
\* rates
C20_Witness ==
    /\ reps.pc = "running"
    /\ \A r \in Reps : reps.orch[r].applies = 1 /\ reps.orch[r].pc = "step"
    /\ reps.orch[1].SEIR = reps.orch[2].SEIR
    /\ reps.orch[1].u_k[0] # reps.orch[1].beta0
    /\ reps.orch[1].integrated_err # 0
    /\ RepView(1).EIhat # RepView(2).EIhat
    /\ RepView(1).integrated_err # RepView(2).integrated_err
    /\ RepView(1).beta_layer # RepView(2).beta_layer
    /\ RepView(1).beta_layer0 = RepView(2).beta_layer0

\* C21: apply takes the open-loop branch exactly when t < start_day or the
\* observed susceptible count is 0 or the observed infectious count is 0;
\* on day t = start_day with both counts non-zero it takes the closed-loop
\* branch; the branch of a day depends on that day's t, S and I only,
\* whatever the branch of the day before was.
C21_RegimeDecidedEachDay ==
    ApplyJustRan =>
        /\ last.regime \in {"open", "closed"}
        /\ last.regime = "open"
              <=> (t < start_day \/ Observed_S = 0 \/ Observed_I = 0)
        /\ (t = start_day /\ Observed_S # 0 /\ Observed_I # 0)
              => last.regime = "closed"

\* day 0 open-loop, day 1 closed-loop, day 2 open-loop again although
\* t >= start_day: the loop has moved in both directions
C21_Witness ==
    /\ pc = "step"
    /\ t = 2
    /\ apply_calls = 3
    /\ control_calls = 1
    /\ u_k[0] = beta0
    /\ u_k[1] # beta0
    /\ u_k[2] = beta0
    /\ last.regime = "open"
    /\ t >= start_day
    /\ Observed_S * Observed_I = 0

\* C22: on every open-loop day the control input handed to the estimator
\* update is the new-infection count the host stored for day t - 1
\* (violated on day 0: index -1 is the last slot of the array, C25).
C22_OpenLoopUsesPreviousDay ==
    (ApplyJustRan /\ last.regime = "open")
        => /\ t - 1 \in Slots
           /\ last.u = new_infections[t - 1]

\* from day 1 on the open-loop input is the count stored for day t - 1
C22_OpenLoopUsesPreviousDayFromDay1 ==
    (ApplyJustRan /\ last.regime = "open" /\ t >= 1)
        => last.u = new_infections[t - 1]

\* C25: the result slot apply reads on day t is the slot of a day already
\* simulated, 0 <= index < t (violated on day 0: sim.t - 1 = -1 reads the
\* last slot, the one of day n_days).
C25_ReadsSimulatedSlot ==
    ApplyJustRan => (PrevSlot >= 0 /\ PrevSlot < t)

\* C23: within one closed-loop apply the control is computed from the
\* estimate and the integral error as they were before the call and is then
\* clamped; the estimator is updated once; the rate comes from the updated
\* estimate and is written to the host; the integral error moves only in a
\* call that has completed its writes, by today's error.
C23_ClosedLoopOrder ==
    [][(ApplyCalled /\ ClosedLoopDay) =>
          /\ last'.u_raw = GetControl(Append(EIhat, integrated_err))
          /\ last'.u = (IF last'.u_raw > 0 THEN last'.u_raw ELSE 0)
          /\ kalman_updates' = kalman_updates + 1
          /\ last'.xi = DoubledEarlyInfectious'
          /\ RatEq(last'.new_beta,
                   IF last'.xi > 0
                   THEN RateOver(last'.u, Observed_S, last'.xi, Observed_N, 18)
                   ELSE beta0)
          /\ \A k \in last'.written :
                ProdEq(beta_layer'[k], beta0, beta_layer0[k], last'.new_beta)
          /\ integrated_err' # integrated_err =>
                /\ last'.written = ControlledSet
                /\ integrated_err' = integrated_err + Observed_y - Target]_vars

\* a closed-loop day on which the estimate before the call, the estimate
\* after it and the integral error before and after all differ, so that the
\* order of the steps shows in the values
C23_Witness ==
    /\ pc = "step"
    /\ t >= 1
    /\ last.regime = "closed"
    /\ ~last.raised
    /\ last.u > 0
    /\ last.xi > 0
    /\ last.u_raw # GetControl(Append(EIhat, integrated_err))
    /\ integrated_err # 0

\* C24: once captured by initialize, the baseline rate and the per-layer
\* original rates stay what the host had at that time through every apply,
\* and after a closed-loop apply each layer it wrote is the original rate
\* times that day's new rate over the baseline, whatever earlier days wrote.
C24_BaselineKept ==
    pc # "constructed" =>
        /\ beta0 = <<Beta, 1>>
        /\ DOMAIN beta_layer0 = DOMAIN beta_layer
        /\ \A k \in DOMAIN beta_layer0 : beta_layer0[k] = <<HostLayerRate(k), 1>>
        /\ last.regime = "closed" =>
              \A k \in last.written :
                 ProdEq(beta_layer[k], <<Beta, 1>>,
                        <<HostLayerRate(k), 1>>, last.new_beta)

\* two closed-loop days in a row: the first scaled the layers by a
\* multiplier that is neither 0 nor 1, the second fell back to the baseline
\* rate and the layers are back at their original rates
C24_Witness ==
    /\ pc = "step"
    /\ t >= 1
    /\ control_calls >= 2
    /\ last.regime = "closed"
    /\ ~last.raised
    /\ u_k[t - 1] # beta0
    /\ u_k[t - 1] # <<0, 1>>
    /\ u_k[t] = beta0
    /\ beta_layer["h"] = <<HostLayerRate("h"), 1>>

\* C26: a closed-loop apply writes exactly the five layers h, s, w, c and l,
\* and leaves every other layer key and the host's global rate as they were
\* (violated: on a host without one of the five keys fewer are written, C9).
C26_ExactlyFiveWritten ==
    (ApplyJustRan /\ last.regime = "closed") =>
        /\ last.written = ControlledSet
        /\ \A k \in DOMAIN beta_layer \ ControlledSet :
              beta_layer[k] = <<HostLayerRate(k), 1>>
        /\ beta = <<Beta, 1>>

\* the frame part alone: layers outside the five and the global rate are
\* never written
C26_OtherLayersKept ==
    /\ \A k \in DOMAIN beta_layer \ ControlledSet :
          beta_layer[k] = <<HostLayerRate(k), 1>>
    /\ beta = <<Beta, 1>>

\* C27: with a positive baseline rate, non-negative original rates, N > 0
\* and S >= 0, every controlled layer rate of the host is non-negative at all
\* times, and on a closed-loop day with I_eff > 0 the divisor
\* S * I_eff^Ipow / N is strictly positive.
C27_RatesNonNegative ==
    /\ \A k \in ControlledSet \cap DOMAIN beta_layer :
          beta_layer[k][1] >= 0 /\ beta_layer[k][2] > 0
    /\ (ApplyJustRan /\ last.regime = "closed" /\ last.xi > 0) =>
          /\ Observed_S > 0
          /\ Observed_N > 0
          /\ Observed_S * Pow(last.xi, Ipow) > 0
          /\ last.new_beta[1] >= 0 /\ last.new_beta[2] > 0

\* a closed-loop day that set a strictly positive rate other than the
\* baseline, from a controller output that had to be positive
C27_Witness ==
    /\ pc = "step"
    /\ last.regime = "closed"
    /\ last.xi > 0
    /\ last.u_raw > 0
    /\ last.new_beta[1] > 0
    /\ beta_layer["h"][1] > 0
    /\ beta_layer["h"] # beta_layer0["h"]

\* the sum of the components of a vector
VecSum(v) == SumTo(v, Len(v))

\* C28: once the constructor has finished, A and B are assembled and a model
\* step conserves total mass: the components of A x + B u sum to what the
\* components of x sum to (violated: no A or B is ever assembled).
C28_MassConserved ==
    ConstructFinished
        => /\ Assembled
           /\ \A x \in [1 .. Len(seir.A) -> StateValues], u \in ControlValues :
                 VecSum(ModelStepValue(seir.A, seir.B, x, u, 1)) = Denom * VecSum(x)

\* lines 36-48 taken alone: a model step conserves total mass
Assembly_MassConserved ==
    (seir.pc = "assembled" /\ seir.k > 0)
        => /\ VecSum(seir.x) = Denom * VecSum(seir.prev)
           /\ VecSum(seir.B) = 0

\* C29: once the constructor has finished, A and B are assembled; when an
\* observation definition was requested C is the row with 1 at every E and I
\* position and 0 at S and R, and when none was requested no C is defined
\* (violated: the constructor raises before anything is assembled).
C29_ObservationRow ==
    ConstructFinished
        => /\ Assembled
           /\ seir.Creq => seir.C = BuildC(seir.EI, seir.IR)
           /\ ~seir.Creq => seir.C = NotBuilt

\* C30: the model object the orchestrators were given keeps its A, B and C
\* (and everything else it holds) for the whole run: step changes nothing and
\* no apply writes to it.
C30_ModelNeverModified ==
    reps.pc = "running" => reps.models[ModelAddr] = GivenModel

\* step has been called and both replicates have run an apply, one of them
\* in closed loop, on the shared model
C30_Witness ==
    /\ reps.pc = "running"
    /\ reps.step_calls = 1
    /\ \A r \in Reps : reps.orch[r].applies = 1 /\ reps.orch[r].SEIR = ModelAddr
    /\ reps.orch[1].integrated_err # 0
    /\ reps.models[ModelAddr].A = BuildA(GivenEI, GivenIR)

====
